---- MODULE Spec2Model ----
(***************************************************************************)
(* HyperTube backend, three parts, each with its own specification:         *)
(*   SpecPredict    the readiness predictor of the film catalogue           *)
(*                  (FilmService.compute_torrent_can_watch) and the two     *)
(*                  route handlers that call it;                            *)
(*   SpecReconcile  the catalogue reconciler (refresh_downloading_films,    *)
(*                  update_progress), the requests that commit it and the   *)
(*                  hourly cleanup of stale downloads;                      *)
(*   SpecStream     the stream pipeline of routes/stream.py.                *)
(*                                                                          *)
(* Numbers.  The predictor works on Python floats.  Every float expression  *)
(* is evaluated here as an exact rational [num, den] (den > 0, reduced).    *)
(* IEEE-754 rounding changes the outcome only where the exact values tie:   *)
(*   - line 300, progress_frac >= min_p, when progress_frac = min_p;        *)
(*   - line 307, int(deficit_bytes / dlspeed), when the quotient is a whole  *)
(*     number.                                                              *)
(* Which way the double rounds there depends on the operands (both ways     *)
(* occur: progress=57, speed=500000, total=3600000000, duration=3600 gives  *)
(* min_p = 0.5700000000000001; progress=8, speed=1, total=5, duration=3     *)
(* gives a quotient just below 2), so the sign of that rounding error is an *)
(* input of the model, fp_error.  The comparisons of lines 282, 290 and 295 *)
(* compare one correctly rounded operation with a literal or with another   *)
(* correctly rounded operation of the same exact value and are exact.       *)
(*                                                                          *)
(* Optional values.  None is <<>>, a present value x is <<x>>.              *)
(*                                                                          *)
(* Byte counts of the worked scenarios of the specification are held in     *)
(* units of 100 000 bytes (3 600 000 000 bytes = 36000 units); the          *)
(* predictor only uses ratios of byte quantities (lines 293, 298, 306-307). *)
(***************************************************************************)
EXTENDS Integers, Sequences, FiniteSets, TLC

VARIABLES
    film,          \* the stored telemetry: status, progress, download_speed,
                   \* total_bytes, duration (models/film.py:22-27)
    fp_error,      \* sign of the rounding error of the double computation
                   \* (film_service.py:298-307)
    verdict,       \* the returned (can_watch, ready_in_seconds)
    availability,  \* FilmResponse.availability (routes/films.py:37-45)
    pc,            \* position of the request in flight: "request", then
                   \* "films" or "torrents" once answered (predictor);
                   \* "idle", then "ticked", "polled" or "cleaned"
                   \* (reconciler)
    films,         \* the films table: imdb_id -> row (models/film.py:13-29)
    downloads,     \* the downloads table: rows imdb_id, torrent_hash, status
                   \* (models/download.py:29-34)
    listing,       \* answer of the engine to the last query: None when the
                   \* engine was not asked or not reached, else
                   \* <<qbt_map>>, qbt_map a function hash -> torrent
    pre,           \* the films table as committed before the last request
    tick,          \* what the last reconciliation did: raised, asked, and
                   \* the Download row a progress request was about
    request,       \* the stream request in flight: handler and parameters
    container,     \* what ffprobe reports of the requested file: its audio
                   \* and subtitle codecs in stream order
    stage,         \* where the request is: "Requested", "Answered", or for
                   \* a stream "Launched", "Streaming", "Completed", "Aborted"
    response,      \* the HTTP answer: status, detail, body fields
    spawned,       \* the external processes started for the request, in
                   \* order of their start
    transcoder,    \* the ffmpeg child of stream_video: process state, exit
                   \* code and the arguments it was started with
    chunks         \* number of chunks iter_ffmpeg has yielded

recVars == <<films, downloads, listing, pre, tick>>

strVars == <<request, container, stage, response, spawned, transcoder, chunks>>

vars == <<film, fp_error, verdict, availability, pc, recVars, strVars>>

(* ------------------------------ bounds --------------------------------- *)
MaxProgress == 101
MaxSpeed == 2
MaxTotal == 9
MaxDuration == 5

(* --------------------------- optional values --------------------------- *)
None == <<>>

Some(x) == <<x>>

\* Python `x or 0` (lines 280, 285, 286): None and 0 both give 0.
OrZero(x) == IF x = None THEN 0 ELSE x[1]

\* Python truthiness of an optional int (`not dur`, line 289).
Falsy(x) == x = None \/ x[1] = 0

(* --------------------------- exact rationals --------------------------- *)
Abs(x) == IF x < 0 THEN -x ELSE x

RECURSIVE GCD(_, _)
GCD(a, b) == IF b = 0 THEN a ELSE GCD(b, a % b)

Rat(n, d) ==
    LET s == IF d < 0 THEN -1 ELSE 1
        g == GCD(Abs(n), Abs(d))
    IN  [num |-> (s * n) \div g, den |-> (s * d) \div g]

RatInt(i) == [num |-> i, den |-> 1]

RatAdd(a, b) == Rat(a.num * b.den + b.num * a.den, a.den * b.den)

RatSub(a, b) == Rat(a.num * b.den - b.num * a.den, a.den * b.den)

RatMul(a, b) == Rat(a.num * b.num, a.den * b.den)

\* b.num # 0 at every use; a zero divisor is a ZeroDivisionError, see Raises.
RatDiv(a, b) == Rat(a.num * b.den, a.den * b.num)

RatEq(a, b) == a.num * b.den = b.num * a.den

RatLt(a, b) == a.num * b.den < b.num * a.den

RatLeq(a, b) == a.num * b.den <= b.num * a.den

RatMax(a, b) == IF RatLt(a, b) THEN b ELSE a

RatIsInt(a) == a.num % a.den = 0

\* Python int(): truncation toward zero.
RatTrunc(a) == IF a.num >= 0 THEN a.num \div a.den ELSE -((-a.num) \div a.den)

(* ------------------------------ constants ------------------------------ *)
SPEED_SAFETY_FACTOR == Rat(90, 100)

BUFFER_MARGIN == Rat(2, 100)

(* ------------------------------- verdicts ------------------------------ *)
\* The returned tuple (can_watch, ready_in_seconds); returned_at is the line
\* of the return statement taken, raised says the call ended in an exception.
Ready(line) ==
    [can_watch |-> TRUE, ready_in |-> Some(0), returned_at |-> line, raised |-> FALSE]

NotReady(ready_in, line) ==
    [can_watch |-> FALSE, ready_in |-> ready_in, returned_at |-> line, raised |-> FALSE]

\* ZeroDivisionError / TypeError leaving the function at `line`.
Raised(line) ==
    [can_watch |-> FALSE, ready_in |-> None, returned_at |-> line, raised |-> TRUE]

\* FilmResponse defaults before the route handler fills them in.
NoVerdict ==
    [can_watch |-> FALSE, ready_in |-> None, returned_at |-> 0, raised |-> FALSE]

(* ---------------------- compute_torrent_can_watch ---------------------- *)
\* Bug variant: the status literal misspelt.
IsCompleted_WrongLiteral(status) == status = "complete"

IsCompleted(status) == status = "completed"

\* Bug variant: paused forgotten.
IsStopped_ErrorOnly(status) == status = "error"

IsStopped(status) == status \in {"error", "paused"}

\* progress_frac = (progress or 0) / 100.0
ProgressFrac(progress) == RatDiv(RatInt(OrZero(progress)), RatInt(100))

\* Bug variant: progress_frac > 0.99.
NearComplete_Strict(progress_frac) == RatLt(Rat(99, 100), progress_frac)

\* progress_frac >= 0.99
NearComplete(progress_frac) == RatLeq(Rat(99, 100), progress_frac)

\* Bug variant: the size is not looked at.
NoTimeBound_DurationOnly(dur, total) == Falsy(dur) \/ dur[1] <= 0

\* not dur or dur <= 0 or total <= 0
NoTimeBound(dur, total) == Falsy(dur) \/ dur[1] <= 0 \/ total <= 0

\* return (progress_frac >= 0.95, None)
Fallback(progress_frac) ==
    [can_watch |-> RatLeq(Rat(95, 100), progress_frac), ready_in |-> None,
     returned_at |-> 290, raised |-> FALSE]

\* effective_speed = dlspeed * SPEED_SAFETY_FACTOR
EffectiveSpeed(dlspeed) == RatMul(RatInt(dlspeed), SPEED_SAFETY_FACTOR)

\* bitrate = total / dur
Bitrate(total, dur) == RatDiv(RatInt(total), RatInt(dur))

\* Bug variant: the speed comparison reversed.
OutpacesPlayback_Reversed(effective_speed, bitrate, progress_frac) ==
    RatLeq(effective_speed, bitrate) /\ RatLt(Rat(1, 100), progress_frac)

\* Bug variant: no lower limit on the progress.
OutpacesPlayback_NoProgressFloor(effective_speed, bitrate, progress_frac) ==
    RatLeq(bitrate, effective_speed)

\* effective_speed >= bitrate and progress_frac > 0.01
OutpacesPlayback(effective_speed, bitrate, progress_frac) ==
    RatLeq(bitrate, effective_speed) /\ RatLt(Rat(1, 100), progress_frac)

\* Bug variant: the buffer margin left out.
MinP_NoMargin(effective_speed, dur, total) ==
    RatMax(RatInt(0),
           RatSub(RatInt(1),
                  RatDiv(RatMul(effective_speed, RatInt(dur)), RatInt(total))))

\* min_p = max(0.0, 1.0 - (effective_speed * dur) / total) + BUFFER_MARGIN
MinP(effective_speed, dur, total) ==
    RatAdd(RatMax(RatInt(0),
                  RatSub(RatInt(1),
                         RatDiv(RatMul(effective_speed, RatInt(dur)), RatInt(total)))),
           BUFFER_MARGIN)

\* Bug variant: progress_frac <= min_p.
ReachesMinP_Reversed(progress_frac, min_p, fp) ==
    RatLt(progress_frac, min_p) \/ (RatEq(min_p, progress_frac) /\ fp <= 0)

\* progress_frac >= min_p on doubles: min_p is the result of four rounded
\* operations; when the exact values tie, the double min_p lies above
\* progress_frac iff its rounding error is positive.
ReachesMinP(progress_frac, min_p, fp) ==
    RatLt(min_p, progress_frac) \/ (RatEq(min_p, progress_frac) /\ fp <= 0)

\* if dlspeed <= 0
NoSpeed(dlspeed) == dlspeed <= 0

\* deficit_bytes = (min_p - progress_frac) * total
DeficitBytes(min_p, progress_frac, total) ==
    RatMul(RatSub(min_p, progress_frac), RatInt(total))

\* Bug variant: int(deficit_bytes / dlspeed), without the + 1.
ReadyIn_NoPlusOne(deficit_bytes, dlspeed, fp) ==
    LET q == RatDiv(deficit_bytes, RatInt(dlspeed))
    IN  IF RatIsInt(q) /\ q.num >= 1 /\ fp < 0
        THEN RatTrunc(q) - 1
        ELSE RatTrunc(q)

\* ready_in = int(deficit_bytes / dlspeed) + 1.  The double quotient is
\* positive; when the exact quotient is a whole number k >= 1 and the double
\* is rounded below it, int() yields k - 1.
ReadyIn(deficit_bytes, dlspeed, fp) ==
    LET q == RatDiv(deficit_bytes, RatInt(dlspeed))
    IN  IF RatIsInt(q) /\ q.num >= 1 /\ fp < 0
        THEN (RatTrunc(q) - 1) + 1
        ELSE RatTrunc(q) + 1

\* Lines 292-308: both size and duration are known.
TimeBound(progress_frac, dlspeed, total, dur, fp) ==
    IF dur = None \/ dur[1] = 0 THEN Raised(293)
    ELSE
    LET effective_speed == EffectiveSpeed(dlspeed)
        bitrate == Bitrate(total, dur[1])
    IN  IF OutpacesPlayback(effective_speed, bitrate, progress_frac) THEN Ready(296)
        ELSE IF total = 0 THEN Raised(298)
        ELSE
        LET min_p == MinP(effective_speed, dur[1], total)
        IN  IF ReachesMinP(progress_frac, min_p, fp) THEN Ready(301)
            ELSE IF NoSpeed(dlspeed) THEN NotReady(None, 304)
            ELSE IF dlspeed = 0 THEN Raised(307)
            ELSE NotReady(Some(ReadyIn(DeficitBytes(min_p, progress_frac, total),
                                       dlspeed, fp)), 308)

compute_torrent_can_watch(status, progress, download_speed, total_bytes, duration, fp) ==
    IF IsCompleted(status) THEN Ready(274)
    ELSE IF IsStopped(status) THEN NotReady(None, 277)
    ELSE
    LET progress_frac == ProgressFrac(progress)
    IN  IF NearComplete(progress_frac) THEN Ready(283)
        ELSE
        LET dlspeed == OrZero(download_speed)
            total == OrZero(total_bytes)
            dur == duration
        IN  IF NoTimeBound(dur, total) THEN Fallback(progress_frac)
            ELSE TimeBound(progress_frac, dlspeed, total, dur, fp)

\* Film-level wrapper.
compute_can_watch(f, fp) ==
    compute_torrent_can_watch(f.status, f.progress, f.download_speed,
                              f.total_bytes, f.duration, fp)

(* ------------------------------- inputs -------------------------------- *)
Statuses == {"downloading", "paused", "completed", "error"}

OptRange(lo, hi) == {None} \cup {Some(x) : x \in lo..hi}

\* Bounded telemetry: null, negative, zero and positive values of each field.
BoundedFilms ==
    [status : Statuses,
     progress : OptRange(-1, MaxProgress),
     download_speed : OptRange(-1, MaxSpeed),
     total_bytes : OptRange(-1, MaxTotal),
     duration : OptRange(-1, MaxDuration)]

\* The worked scenarios: a 1 h film of 3 600 000 000 bytes at 2 000 000 B/s
\* (5 %) and at 500 000 B/s (10 %, and 57 % = min_p), and a 2 h film of
\* 1 000 000 000 bytes at 99.0 % with no speed.  Bytes in units of 100 000.
ScenarioFilms ==
    {[status |-> "downloading", progress |-> Some(5), download_speed |-> Some(20),
      total_bytes |-> Some(36000), duration |-> Some(3600)],
     [status |-> "downloading", progress |-> Some(10), download_speed |-> Some(5),
      total_bytes |-> Some(36000), duration |-> Some(3600)],
     [status |-> "downloading", progress |-> Some(57), download_speed |-> Some(5),
      total_bytes |-> Some(36000), duration |-> Some(3600)],
     [status |-> "downloading", progress |-> Some(99), download_speed |-> Some(0),
      total_bytes |-> Some(10000), duration |-> Some(7200)]}

(* ------------------------------- actions ------------------------------- *)
\* The catalogue plays no part in a predictor call: empty tables.
NoCatalogue ==
    /\ films = <<>>
    /\ downloads = {}
    /\ listing = None
    /\ pre = <<>>
    /\ tick = <<>>

\* No stream request is in flight.
NoStream ==
    /\ request = <<>>
    /\ container = <<>>
    /\ stage = ""
    /\ response = <<>>
    /\ spawned = <<>>
    /\ transcoder = <<>>
    /\ chunks = 0

InitPredict ==
    /\ film \in BoundedFilms \cup ScenarioFilms
    /\ fp_error \in {-1, 1}
    /\ verdict = NoVerdict
    /\ availability = ""
    /\ pc = "request"
    /\ NoCatalogue
    /\ NoStream

\* GET /films, per film: can_watch / watch_ready_in / availability.
ListFilms ==
    /\ pc = "request"
    /\ LET v == compute_can_watch(film, fp_error)
       IN  /\ verdict' = v
           /\ availability' =
                IF v.raised THEN ""
                ELSE IF film.status = "completed" /\ v.can_watch THEN "fully_available"
                ELSE IF v.can_watch THEN "partially_available"
                ELSE IF film.status = "downloading" THEN "downloading"
                ELSE "not_available"
    /\ pc' = "films"
    /\ UNCHANGED <<film, fp_error, recVars, strVars>>

\* GET /films/{imdb_id}/torrents, per torrent: can_watch / watch_ready_in.
GetFilmTorrents ==
    /\ pc = "request"
    /\ verdict' = compute_torrent_can_watch(film.status, film.progress,
                      film.download_speed, film.total_bytes, film.duration, fp_error)
    /\ pc' = "torrents"
    /\ UNCHANGED <<film, fp_error, availability, recVars, strVars>>

NextPredict == ListFilms \/ GetFilmTorrents

SpecPredict == InitPredict /\ [][NextPredict]_vars

(* ===================== claims on the readiness predictor =============== *)
\* The inputs of the call, as the integers the claims speak about.
Answered == pc \in {"films", "torrents"}

Downloading == film.status \notin {"completed", "error", "paused"}

ProgressPct == OrZero(film.progress)

SpeedIn == OrZero(film.download_speed)

TotalIn == OrZero(film.total_bytes)

DurationIn == OrZero(film.duration)

KnownSizeAndDuration == TotalIn > 0 /\ DurationIn > 0

\* 0.90 * downloadSpeed >= totalBytes / durationSeconds, times 100 * duration.
SpeedOutpacesBitrate == 90 * SpeedIn * DurationIn >= 100 * TotalIn

\* minP = max(0, 1 - 0.90 * speed * duration / total) + 0.02, times 100 * total.
MinPScaled ==
    (IF 100 * TotalIn - 90 * SpeedIn * DurationIn > 0
     THEN 100 * TotalIn - 90 * SpeedIn * DurationIn ELSE 0) + 2 * TotalIn

\* p = progress / 100, times 100 * total.
PScaled == ProgressPct * TotalIn

\* progress/100 + downloadSpeed * t / totalBytes >= t / durationSeconds
ArrivedCoversPlayback(t) ==
    RatLeq(Rat(t, DurationIn),
           RatAdd(Rat(ProgressPct, 100), Rat(SpeedIn * t, TotalIn)))

\* C1 (as stated): whenever the predictor returns canWatch=true for a
\* downloading asset with known size and duration, the available fraction
\* covers the playback position at every playback time t in [0, duration].
C1_PlaybackNeverOutruns ==
    (Answered /\ Downloading /\ KnownSizeAndDuration /\ verdict.can_watch)
        => \A t \in 0..DurationIn : ArrivedCoversPlayback(t)

\* C1 (amended): the same, for a verdict that does not come from the
\* near-complete shortcut (progress fraction below 0.99).
C1_PlaybackNeverOutrunsBelowNearComplete ==
    (Answered /\ Downloading /\ KnownSizeAndDuration /\ verdict.can_watch
        /\ ProgressPct < 99)
        => \A t \in 0..DurationIn : ArrivedCoversPlayback(t)

C1_Witness ==
    /\ Answered /\ Downloading /\ KnownSizeAndDuration /\ verdict.can_watch
    /\ ProgressPct < 99 /\ ~SpeedOutpacesBitrate /\ SpeedIn > 0
    /\ verdict.returned_at = 301

\* C2: status completed gives canWatch=true and readyIn=0 for every
\* combination of the other inputs (null, zero and negative included), through
\* the film-level wrapper and through the per-torrent call.
C2_CompletedIsWatchable ==
    (Answered /\ film.status = "completed")
        => /\ verdict.can_watch = TRUE
           /\ verdict.ready_in = Some(0)
           /\ ~verdict.raised

C2_Witness ==
    /\ pc = "films" /\ film.status = "completed"
    /\ film.progress = None /\ film.download_speed = Some(-1)
    /\ film.total_bytes = Some(0) /\ film.duration = None
    /\ verdict.can_watch /\ verdict.ready_in = Some(0)

\* C3: status error or paused gives canWatch=false and readyIn=null for every
\* combination of the other inputs, even progress = 100.
C3_StoppedIsNotWatchable ==
    (Answered /\ film.status \in {"error", "paused"})
        => /\ verdict.can_watch = FALSE
           /\ verdict.ready_in = None
           /\ ~verdict.raised

C3_Witness ==
    /\ Answered /\ film.status = "paused" /\ film.progress = Some(100)
    /\ ~verdict.can_watch /\ verdict.ready_in = None

\* C4: with every other input held fixed, canWatch=true at a progress value
\* stays true at every larger progress value.
C4_MonotoneInProgress ==
    (Answered /\ film.progress # None /\ verdict.can_watch)
        => \A p2 \in film.progress[1]..MaxProgress :
              compute_torrent_can_watch(film.status, Some(p2), film.download_speed,
                  film.total_bytes, film.duration, fp_error).can_watch

C4_Witness ==
    /\ Answered /\ Downloading /\ verdict.can_watch
    /\ film.progress # None /\ ProgressPct < 95
    /\ verdict.returned_at = 301

\* The deficit (minP - p) * totalBytes / downloadSpeed as numerator and
\* denominator, both times 100.
DeficitNum == MinPScaled - PScaled

DeficitDen == 100 * SpeedIn

\* The predictor reaches its last rule: downloading, known size and duration,
\* rules 3 and 6 not taken, p < minP, downloadSpeed > 0.
LastRuleCase ==
    /\ Answered /\ Downloading /\ KnownSizeAndDuration
    /\ ProgressPct < 99
    /\ ~(SpeedOutpacesBitrate /\ ProgressPct > 1)
    /\ PScaled < MinPScaled
    /\ SpeedIn > 0

\* C5 (as stated): in the last rule readyIn is exactly
\* ceil((minP - p) * totalBytes / downloadSpeed), also when the deficit is an
\* exact multiple of downloadSpeed.
C5_ReadyInIsCeil ==
    LastRuleCase
        => /\ verdict.can_watch = FALSE
           /\ verdict.ready_in = Some(-((-DeficitNum) \div DeficitDen))

\* C5 (amended): in the last rule readyIn is int(q) + 1 of the computed
\* quotient q: floor(x) + 1 for the exact quotient x, which is ceil(x) when x
\* is not a whole number; when x is a whole number k it is k + 1, or k when the
\* double quotient is rounded below k.
C5_ReadyInIsFloorPlusOne ==
    LastRuleCase
        => /\ verdict.can_watch = FALSE
           /\ verdict.ready_in =
                Some(IF DeficitNum % DeficitDen = 0 /\ fp_error < 0
                     THEN DeficitNum \div DeficitDen
                     ELSE (DeficitNum \div DeficitDen) + 1)

C5_Witness ==
    /\ LastRuleCase /\ DeficitNum % DeficitDen = 0 /\ fp_error > 0
    /\ verdict.ready_in = Some((DeficitNum \div DeficitDen) + 1)
    /\ verdict.returned_at = 308

\* status=Downloading, durationSeconds=3600, totalBytes=3 600 000 000,
\* downloadSpeed=500 000, progressPercent=10.
SlowScenario ==
    /\ film.status = "downloading" /\ film.progress = Some(10)
    /\ film.download_speed = Some(5) /\ film.total_bytes = Some(36000)
    /\ film.duration = Some(3600)

\* C6 (as stated): on the slow scenario minP = 0.57 and the call returns
\* canWatch=false with readyIn = 6768.
C6_SlowScenarioReadyIn6768 ==
    (Answered /\ SlowScenario)
        => /\ MinPScaled * 100 = 57 * (100 * TotalIn)
           /\ verdict.can_watch = FALSE
           /\ verdict.ready_in = Some(6768)

\* C6 (amended): on the slow scenario minP = 0.57 and the call returns
\* canWatch=false with readyIn = 3385 = int(1 692 000 000 / 500 000) + 1
\* (3384 only if the double quotient were rounded below 3384).
C6_SlowScenarioReadyIn3385 ==
    (Answered /\ SlowScenario)
        => /\ MinPScaled * 100 = 57 * (100 * TotalIn)
           /\ verdict.can_watch = FALSE
           /\ verdict.ready_in = Some(IF fp_error < 0 THEN 3384 ELSE 3385)

C6_Witness ==
    /\ Answered /\ SlowScenario /\ fp_error > 0
    /\ ~verdict.can_watch /\ verdict.ready_in = Some(3385)

\* C7: a downloading asset with progress / 100 >= 0.99 is watchable now,
\* whatever the speed, size and duration (the shortcut precedes every
\* speed-based rule): progress 99.0, duration 7200, 1 000 000 000 bytes and
\* speed 0 give (true, 0).
C7_NearCompleteIsWatchable ==
    (Answered /\ Downloading /\ ProgressPct >= 99)
        => /\ verdict.can_watch = TRUE
           /\ verdict.ready_in = Some(0)
           /\ ~verdict.raised

C7_Witness ==
    /\ Answered /\ film.status = "downloading" /\ film.progress = Some(99)
    /\ film.download_speed = Some(0) /\ film.total_bytes = Some(10000)
    /\ film.duration = Some(7200)
    /\ verdict.can_watch /\ verdict.ready_in = Some(0)

\* C8: downloading, known size and duration, p < 0.99: when
\* 0.90 * speed >= totalBytes / duration, p > 0.01 gives (true, 0) by the
\* outpacing rule, and with p <= 0.01 that rule is not the one that answers.
\* Duration 3600, 3 600 000 000 bytes, speed 2 000 000, progress 5: (true, 0).
C8_OutpacingSpeedIsWatchable ==
    (Answered /\ Downloading /\ KnownSizeAndDuration /\ ProgressPct < 99
        /\ SpeedOutpacesBitrate)
        => IF ProgressPct > 1
           THEN /\ verdict.can_watch = TRUE
                /\ verdict.ready_in = Some(0)
                /\ verdict.returned_at = 296
           ELSE verdict.returned_at # 296

C8_Witness ==
    /\ Answered /\ film.status = "downloading" /\ film.progress = Some(5)
    /\ film.download_speed = Some(20) /\ film.total_bytes = Some(36000)
    /\ film.duration = Some(3600)
    /\ verdict.can_watch /\ verdict.ready_in = Some(0) /\ verdict.returned_at = 296

C10_WatchableIffReachesMinP ==
    (Answered /\ Downloading /\ KnownSizeAndDuration /\ ProgressPct < 99
        /\ ~(SpeedOutpacesBitrate /\ ProgressPct > 1))
        => (verdict.can_watch <=> PScaled >= MinPScaled)

(* ======================= the catalogue reconciler ====================== *)
(* FilmService.refresh_downloading_films, run and committed by GET /films   *)
(* (routes/films.py:27-28), and DownloadService.update_progress, run and    *)
(* committed by GET /downloads/{id}/progress (routes/downloads.py:79-82).   *)
(* A film row's progress is the exact rational of the float the code        *)
(* stores; the values of this model (0, 50, 100) are far from the 99.9      *)
(* threshold of line 208, where the comparison of doubles is exact.         *)

\* Two films; an imdb_id "noid-<hash>" carries a torrent hash in its name.
FilmIds == {"tt1", "noid-h3"}

Hashes == {"h1", "h2", "h3"}

\* film_service.py:131-132: imdb_id[5:] of an id that starts with "noid-".
NoidHash(imdb_id) == IF imdb_id = "noid-h3" THEN {"h3"} ELSE {}

\* Engine states the listing of this model uses: one per class of the two
\* tables, "stoppedUP" that only the film table knows, and one state that
\* neither table knows.
EngineStates ==
    {"stalledUP", "stoppedUP", "pausedDL", "error", "stalledDL", "someNewState"}

\* film_service.py:158-161.
Film_COMPLETED_STATES ==
    {"uploading", "forcedUP", "stalledUP", "queuedUP", "checkingUP",
     "pausedUP", "stoppedUP"}

Film_PAUSED_STATES == {"pausedDL", "stoppedDL"}

Film_ERROR_STATES == {"error", "missingFiles", "unknown"}

\* film_service.py:162, STATUS_RANK.get(mapped, 0).
STATUS_RANK(mapped) ==
    CASE mapped = "completed" -> 4
      [] mapped = "downloading" -> 3
      [] mapped = "paused" -> 2
      [] mapped = "error" -> 1
      [] OTHER -> 0

\* film_service.py:181-189: every state outside the three tables is
\* "downloading".
MapFilmState(state) ==
    IF state \in Film_COMPLETED_STATES THEN "completed"
    ELSE IF state \in Film_PAUSED_STATES THEN "paused"
    ELSE IF state \in Film_ERROR_STATES THEN "error"
    ELSE "downloading"

\* download_service.py:156-162.
Download_COMPLETED_STATES ==
    {"uploading", "forcedUP", "stalledUP", "queuedUP", "checkingUP"}

Download_DOWNLOADING_STATES ==
    {"downloading", "forcedDL", "metaDL", "allocating", "stalledDL",
     "queuedDL", "checkingDL", "checkingResumeData", "moving"}

Download_PAUSED_STATES == {"pausedDL", "pausedUP"}

Download_ERROR_STATES == {"error", "missingFiles", "unknown"}

\* A state that no table of update_progress lists.
UnknownToDownload(state) ==
    state \notin Download_COMPLETED_STATES \cup Download_DOWNLOADING_STATES
                 \cup Download_PAUSED_STATES \cup Download_ERROR_STATES

\* download_service.py:164-177: the stored status survives an unlisted
\* state only when it is completed or error.
MapDownloadState(state, stored) ==
    IF state \in Download_COMPLETED_STATES THEN "completed"
    ELSE IF state \in Download_DOWNLOADING_STATES THEN "downloading"
    ELSE IF state \in Download_PAUSED_STATES THEN "paused"
    ELSE IF state \in Download_ERROR_STATES THEN "error"
    ELSE IF stored \notin {"completed", "error"} THEN "downloading"
    ELSE stored

(* ------------------- torrents of the engine's listing ------------------ *)
\* A torrent half way: 5 of 10 bytes at 7 B/s.
Half(state) ==
    [state |-> state, downloaded |-> 5, size |-> 10,
     progress |-> Some(Rat(1, 2)), dlspeed |-> 7, eta |-> Some(3)]

\* A torrent with all its bytes.
Done(state) ==
    [state |-> state, downloaded |-> 10, size |-> 10,
     progress |-> Some(Rat(1, 1)), dlspeed |-> 0, eta |-> Some(0)]

\* A torrent without metadata whose "progress" is JSON null.
NullProgress ==
    [state |-> "pausedDL", downloaded |-> 0, size |-> 0,
     progress |-> None, dlspeed |-> 0, eta |-> None]

Torrents ==
    {Half(st) : st \in EngineStates \ {"stalledUP", "stoppedUP"}}
    \cup {Done(st) : st \in {"stalledUP", "stoppedUP", "pausedDL"}}
    \cup {NullProgress}

\* Every listing over the hashes: qbt_map of line 164.
Listings == UNION {[hs -> Torrents] : hs \in SUBSET Hashes}

(* --------------------- refresh_downloading_films ----------------------- *)
\* The variant of lines 115-119 without the filter on the status.
Selected_AnyStatus(fs) == DOMAIN fs

\* film_service.py:115-119: only these films are refreshed.
Selected(fs) ==
    {id \in DOMAIN fs : fs[id].status \in {"downloading", "paused", "error"}}

\* film_service.py:127-143, hashes_by_imdb[id]: the film's own hash, the
\* hash in a "noid-" id, and the hashes of the Download rows of the film.
HashesOf(fs, dls, id) ==
    (IF fs[id].torrent_hash # None THEN {fs[id].torrent_hash[1]} ELSE {})
    \cup NoidHash(id)
    \cup {d.torrent_hash : d \in {x \in dls : x.imdb_id = id}}

\* Keys of hashes_by_imdb: setdefault runs only when a hash is added.
WithHashes(fs, dls) == {id \in Selected(fs) : HashesOf(fs, dls, id) # {}}

\* film_service.py:176-179: the film's hashes found in qbt_map.
Listed(fs, dls, qbt_map, id) == HashesOf(fs, dls, id) \cap DOMAIN qbt_map

\* film_service.py:172-195: best_t is the first torrent of the highest rank
\* in the iteration order of the set `hashes`, which the language does not
\* fix: any listed hash of the highest rank can be the one kept.
BestHashes(fs, dls, qbt_map, id) ==
    {h \in Listed(fs, dls, qbt_map, id) :
        \A g \in Listed(fs, dls, qbt_map, id) :
            STATUS_RANK(MapFilmState(qbt_map[g].state))
                <= STATUS_RANK(MapFilmState(qbt_map[h].state))}

\* film_service.py:198-209 for the film row f and best_t = t.  Line 204
\* multiplies None by 100.0 when "progress" is null and size is not
\* positive: TypeError, after the assignments of lines 198-200.
ApplyBest(f, t) ==
    LET a == [f EXCEPT !.status = MapFilmState(t.state),
                       !.downloaded_bytes = t.downloaded,
                       !.total_bytes = t.size]
    IN  IF t.size <= 0 /\ t.progress = None
        THEN [row |-> a, raised |-> TRUE]
        ELSE LET p == IF t.size > 0
                      THEN RatMul(Rat(t.downloaded, t.size), RatInt(100))
                      ELSE RatMul(t.progress[1], RatInt(100))
             IN  [row |-> [a EXCEPT !.progress = p,
                                    !.download_speed = t.dlspeed,
                                    !.eta = t.eta,
                                    !.status = IF RatLeq(Rat(999, 10), p)
                                               THEN "completed"
                                               ELSE MapFilmState(t.state)],
                  raised |-> FALSE]

\* film_service.py:214-219, dl_check.first().
HasDownload(dls, id) == \E d \in dls : d.imdb_id = id

\* The table without the row of id (session.delete).
Delete(fs, id) == [x \in DOMAIN fs \ {id} |-> fs[x]]

\* The variant of lines 219-228 that keeps the row as it is when a Download
\* row references it.
Vanished_KeepsStale(fs, dls, id) ==
    IF HasDownload(dls, id) THEN fs ELSE Delete(fs, id)

\* film_service.py:210-228: none of the film's hashes is in the listing.
Vanished(fs, dls, id) ==
    IF HasDownload(dls, id)
    THEN [fs EXCEPT ![id].status = "error",
                    ![id].download_speed = 0,
                    ![id].eta = None]
    ELSE Delete(fs, id)

\* One iteration of the loop of line 167 on the session's rows fs; all is
\* hashes_by_imdb as gathered from the rows read at lines 115-143, pick[id]
\* the hash of best_t.
RefreshOne(fs, all, dls, qbt_map, id, pick) ==
    IF BestHashes(all, dls, qbt_map, id) # {}
    THEN LET r == ApplyBest(fs[id], qbt_map[pick[id]])
         IN  [films |-> [fs EXCEPT ![id] = r.row], raised |-> r.raised]
    ELSE [films |-> Vanished(fs, dls, id), raised |-> FALSE]

RECURSIVE RefreshLoop(_, _, _, _, _, _)
\* film_service.py:167-228 over the film ids in the order of the dict; the
\* first exception leaves the loop with the rows assigned so far.
RefreshLoop(fs, all, dls, qbt_map, order, pick) ==
    IF order = <<>> THEN [films |-> fs, raised |-> FALSE]
    ELSE LET r == RefreshOne(fs, all, dls, qbt_map, Head(order), pick)
         IN  IF r.raised THEN r
             ELSE RefreshLoop(r.films, all, dls, qbt_map, Tail(order), pick)

\* film_service.py:230-240: selected films without any hash and without a
\* Download row are deleted.
DeleteHashless(fs, all, dls) ==
    [id \in DOMAIN fs \ {x \in Selected(all) \ WithHashes(all, dls) :
                             ~HasDownload(dls, x)} |-> fs[id]]

\* The orders in which a dict or a set can hold the elements of S.
Orders(S) ==
    {o \in [1..Cardinality(S) -> S] : \A i, j \in DOMAIN o : o[i] = o[j] => i = j}

\* For each film the hash of its best_t.
Picks(all, dls, qbt_map) ==
    {pk \in [FilmIds -> Hashes] :
        \A id \in FilmIds :
            IF id \in WithHashes(all, dls) /\ BestHashes(all, dls, qbt_map, id) # {}
            THEN pk[id] \in BestHashes(all, dls, qbt_map, id)
            ELSE pk[id] = "h1"}

\* The variant in which an engine that cannot be reached counts as an engine
\* that lists nothing.
refresh_downloading_films_UnreachableIsEmpty(fs, dls, answer) ==
    IF Selected(fs) = {} \/ WithHashes(fs, dls) = {}
    THEN {[films |-> fs, raised |-> FALSE, asked |-> FALSE]}
    ELSE {LET r == RefreshLoop(fs, fs, dls, <<>>, order, pick)
          IN  [films |-> DeleteHashless(r.films, fs, dls),
               raised |-> answer = None,
               asked |-> TRUE] :
            order \in Orders(WithHashes(fs, dls)),
            pick \in Picks(fs, dls, <<>>)}

\* film_service.py:98-244 on the rows fs and dls; answer is None when the
\* engine cannot be reached (lines 154-156 raise), else <<qbt_map>>.  The
\* result is the session's rows, whether an exception reached line 243, and
\* whether the engine was asked.
refresh_downloading_films(fs, dls, answer) ==
    IF Selected(fs) = {} \/ WithHashes(fs, dls) = {}
    THEN {[films |-> fs, raised |-> FALSE, asked |-> FALSE]}
    ELSE IF answer = None
    THEN {[films |-> fs, raised |-> TRUE, asked |-> TRUE]}
    ELSE {LET r == RefreshLoop(fs, fs, dls, answer[1], order, pick)
          IN  [films |-> IF r.raised THEN r.films
                         ELSE DeleteHashless(r.films, fs, dls),
               raised |-> r.raised,
               asked |-> TRUE] :
            order \in Orders(WithHashes(fs, dls)),
            pick \in Picks(fs, dls, answer[1])}

(* --------------------------- update_progress --------------------------- *)
\* film_service.py:70-95: upsert of the progress fields on imdb_id.
update_film_progress(fs, imdb_id, status, progress, download_speed, total_bytes, downloaded_bytes, eta) ==
    [id \in DOMAIN fs \cup {imdb_id} |->
        IF id # imdb_id THEN fs[id]
        ELSE [status |-> status, progress |-> progress,
              download_speed |-> download_speed, total_bytes |-> total_bytes,
              downloaded_bytes |-> downloaded_bytes, eta |-> eta,
              torrent_hash |-> IF id \in DOMAIN fs THEN fs[id].torrent_hash
                               ELSE None]]

\* download_service.py:142-203 for the Download row d; found is None when
\* get_progress finds no torrent, else <<torrent>>.  A null "progress" with
\* size <= 0 raises at line 185 and the request fails.
update_progress(fs, dls, d, found) ==
    IF found = None
    THEN [films |-> fs, downloads |-> (dls \ {d}) \cup {[d EXCEPT !.status = "error"]},
          raised |-> FALSE]
    ELSE LET t == found[1]
             st == MapDownloadState(t.state, d.status)
         IN  IF t.size <= 0 /\ t.progress = None
             THEN [films |-> fs, downloads |-> dls, raised |-> TRUE]
             ELSE LET p == IF t.size > 0
                           THEN RatMul(Rat(t.downloaded, t.size), RatInt(100))
                           ELSE RatMul(t.progress[1], RatInt(100))
                      row == [d EXCEPT !.status = st, !.downloaded_bytes = t.downloaded,
                                       !.total_bytes = t.size, !.progress = p]
                  IN  [films |-> update_film_progress(fs, d.imdb_id, st, p,
                                     t.dlspeed, t.size, t.downloaded, t.eta),
                       downloads |-> (dls \ {d}) \cup {row},
                       raised |-> FALSE]

(* ------------------------------ the tables ----------------------------- *)
\* A film row in the middle of a transfer, and a finished one.
FilmRow(status, torrent_hash) ==
    IF status = "completed"
    THEN [status |-> status, progress |-> RatInt(100), download_speed |-> 0,
          total_bytes |-> 10, downloaded_bytes |-> 10, eta |-> Some(0),
          torrent_hash |-> torrent_hash]
    ELSE [status |-> status, progress |-> RatInt(50), download_speed |-> 7,
          total_bytes |-> 10, downloaded_bytes |-> 5, eta |-> Some(3),
          torrent_hash |-> torrent_hash]

\* "tt1" is absent or stored with or without its hash h1; "noid-h3" is
\* absent or stored, its hash is in its id.
InitialFilms ==
    {fs \in UNION {[ids -> {FilmRow(st, th) : st \in Statuses, th \in {None, Some("h1")}}] :
                      ids \in SUBSET FilmIds} :
        "noid-h3" \in DOMAIN fs => fs["noid-h3"].torrent_hash = None}

DownloadRow(imdb_id, torrent_hash, status) ==
    [imdb_id |-> imdb_id, torrent_hash |-> torrent_hash, status |-> status,
     progress |-> RatInt(0), downloaded_bytes |-> 0, total_bytes |-> 0]

\* A second transfer h2 of "tt1" and the transfer h3 of "noid-h3"; a hash
\* is in one row at most (uq_torrent_hash).
InitialDownloads ==
    {a \cup b :
        a \in {{}} \cup {{DownloadRow("tt1", "h2", st)} : st \in Statuses},
        b \in {{}} \cup {{DownloadRow("noid-h3", "h3", st)} : st \in {"downloading", "completed"}}}

\* The predictor plays no part in a reconciliation.
NoPrediction ==
    /\ film = [status |-> "completed", progress |-> None, download_speed |-> None,
               total_bytes |-> None, duration |-> None]
    /\ fp_error = 1
    /\ verdict = NoVerdict
    /\ availability = ""

InitReconcile ==
    /\ films \in InitialFilms
    /\ downloads \in InitialDownloads
    /\ listing = None
    /\ pre = films
    /\ tick = [raised |-> FALSE, asked |-> FALSE, row |-> None]
    /\ pc = "idle"
    /\ NoPrediction
    /\ NoStream

\* GET /films, lines 27-28: the tick and its commit.  The commit writes the
\* session's rows whether or not the tick swallowed an exception.  The tick
\* runs on the tables as stored or as the hourly cleanup left them.
ListFilmsRefresh ==
    /\ pc \in {"idle", "cleaned"}
    /\ \E answer \in {None} \cup {Some(q) : q \in Listings} :
         \E r \in refresh_downloading_films(films, downloads, answer) :
            /\ films' = r.films
            /\ listing' = IF r.asked THEN answer ELSE None
            /\ tick' = [raised |-> r.raised, asked |-> r.asked, row |-> None]
    /\ pre' = films
    /\ pc' = "ticked"
    /\ UNCHANGED <<downloads, film, fp_error, verdict, availability, strVars>>

\* The variant of the guard that holds only completed downloads final.
Terminal_CompletedOnly(status) == status = "completed"

\* routes/downloads.py:79: the statuses the route returns as stored.
Terminal(status) == status \in {"completed", "error"}

\* GET /downloads/{id}/progress (routes/downloads.py:58-84): a completed or
\* error download is returned as stored; an engine that cannot be reached or
\* an exception of update_progress fails the request, get_db rolls back.
\* Progress requests follow one another on the tables they leave.
GetDownloadProgress ==
    /\ pc \in {"idle", "polled"}
    /\ \E d \in downloads, up \in BOOLEAN, found \in {None} \cup {Some(t) : t \in Torrents} :
         LET skip == Terminal(d.status)
             r == update_progress(films, downloads, d, found)
             done == ~skip /\ up /\ ~r.raised
         IN  /\ films' = IF done THEN r.films ELSE films
             /\ downloads' = IF done THEN r.downloads ELSE downloads
             /\ listing' = IF skip \/ ~up THEN None
                           ELSE IF found = None THEN Some(<<>>)
                           ELSE Some([h \in {d.torrent_hash} |-> found[1]])
             /\ tick' = [raised |-> ~skip /\ (~up \/ r.raised), asked |-> ~skip,
                          row |-> Some(d)]
    /\ pre' = films
    /\ pc' = "polled"
    /\ UNCHANGED <<film, fp_error, verdict, availability, strVars>>

\* main.py:32-77, one round of cleanup_unwatched_films that finds stale
\* downloads: which completed rows are older than the cutoff is the clock's
\* choice.  Each stale row is deleted whether or not the engine dropped its
\* torrent (lines 58-64 swallow the failure); the films table is not read
\* or written.
CleanupUnwatchedFilms ==
    /\ pc = "idle"
    /\ \E stale_downloads \in SUBSET {d \in downloads : d.status = "completed"} \ {{}} :
          downloads' = downloads \ stale_downloads
    /\ listing' = None
    /\ tick' = [raised |-> FALSE, asked |-> FALSE, row |-> None]
    /\ pre' = films
    /\ pc' = "cleaned"
    /\ UNCHANGED <<films, film, fp_error, verdict, availability, strVars>>

NextReconcile == ListFilmsRefresh \/ GetDownloadProgress \/ CleanupUnwatchedFilms

SpecReconcile == InitReconcile /\ [][NextReconcile]_vars

(* ========================= claims on the reconciler ==================== *)
\* A tick that asked the engine, got its listing and ran to its end.
FullTick == pc = "ticked" /\ tick.asked /\ ~tick.raised /\ listing # None

\* The films the tick refreshes that have a transfer in the listing.
RefreshedWithTransfer ==
    {id \in WithHashes(pre, downloads) : Listed(pre, downloads, listing[1], id) # {}}

\* The statuses of the film's transfers in the listing.
TransferStatuses(id) ==
    {MapFilmState(listing[1][h].state) : h \in Listed(pre, downloads, listing[1], id)}

HighestRanked(S) == CHOOSE s \in S : \A r \in S : STATUS_RANK(r) <= STATUS_RANK(s)

\* C11: after a reconciler tick, the status of a film is the highest-ranked
\* status (completed > downloading > paused > error) among its transfers in
\* the engine's listing; a film whose only transfers are paused or in error
\* is not reported completed or downloading.
C11_StatusIsHighestRank ==
    FullTick =>
        \A id \in RefreshedWithTransfer :
            /\ id \in DOMAIN films
            /\ films[id].status = HighestRanked(TransferStatuses(id))

\* States of the engine that no table of the two reconcilers lists.
Unclassified(state) ==
    /\ UnknownToDownload(state)
    /\ state \notin Film_COMPLETED_STATES \cup Film_PAUSED_STATES \cup Film_ERROR_STATES

\* The film ids stored completed or error before the request and stored
\* downloading after it.
Demoted ==
    {id \in DOMAIN pre \cap DOMAIN films :
        pre[id].status \in {"completed", "error"} /\ films[id].status = "downloading"}

\* C12: in both reconciliation paths, an engine state that no table lists
\* never turns a stored status completed or error into downloading: a film
\* that goes from completed or error to downloading has a transfer in a
\* listed downloading state that accounts for it.
C12_TerminalStatusesAreSticky ==
    /\ FullTick =>
          \A id \in Demoted :
              \E h \in BestHashes(pre, downloads, listing[1], id) :
                  ~Unclassified(listing[1][h].state)
    /\ (pc = "polled" /\ listing # None) =>
          \A id \in Demoted :
              \A h \in DOMAIN listing[1] : ~Unclassified(listing[1][h].state)

\* The refreshed films that have stored hashes, none of them in the listing.
VanishedFilms ==
    {id \in WithHashes(pre, downloads) : Listed(pre, downloads, listing[1], id) = {}}

\* The films, of any stored status, that have stored hashes, none of them
\* in the listing.
VanishedOfAnyStatus ==
    {id \in DOMAIN pre :
        /\ HashesOf(pre, downloads, id) # {}
        /\ HashesOf(pre, downloads, id) \cap DOMAIN listing[1] = {}}

\* What the claim asks of a film whose transfers are gone.
DeletedOrError(id) ==
    IF HasDownload(downloads, id)
    THEN /\ id \in DOMAIN films
         /\ films[id].status = "error"
         /\ films[id].download_speed = 0
         /\ films[id].eta = None
    ELSE id \notin DOMAIN films

C14_TickIsAllOrNothing ==
    (pc = "ticked" /\ tick.raised) => films = pre

(* ========================== the stream pipeline ======================== *)
(* routes/stream.py: stream_video, get_file_info, get_keyframe_time and     *)
(* get_subtitles.  A path is the sequence of its components from the root:  *)
(* "/downloads/temp/a.mkv" is <<"downloads", "temp", "a.mkv">>.  Seek       *)
(* offsets are whole seconds.                                               *)

(* ------------------------------ bounds --------------------------------- *)
MaxStart == 2

MaxAudioTrack == 2

MaxSubtitleStreams == 2

MaxChunks == 2

(* ------------------------------ _safe_path ----------------------------- *)
\* stream.py:19.
MEDIA_DIRS == << <<"downloads">>, <<"downloads", "temp">>, <<"default-videos">> >>

\* The regular files of the host.
Files ==
    { <<"downloads", "movie.mkv">>,
      <<"default-videos", "demo.mp4">>,
      <<"etc", "passwd">> }

RECURSIVE Normalize(_, _)
\* os.path.realpath on a path without symbolic links: ".." drops the last
\* component kept so far, and is dropped itself at the root.
Normalize(done, rest) ==
    IF rest = <<>> THEN done
    ELSE IF Head(rest) = ".."
         THEN Normalize(IF done = <<>> THEN <<>> ELSE SubSeq(done, 1, Len(done) - 1),
                        Tail(rest))
         ELSE Normalize(Append(done, Head(rest)), Tail(rest))

\* os.path.realpath(os.path.join(base, filename)): an absolute filename
\* replaces the base.
RealPath(base, filename) ==
    Normalize(<<>>, IF filename.absolute THEN filename.parts ELSE base \o filename.parts)

\* stream.py:39: filepath.startswith(base + os.sep) or filepath == base.
Within(filepath, base) ==
    \/ filepath = base
    \/ Len(filepath) > Len(base) /\ SubSeq(filepath, 1, Len(base)) = base

\* The variant of line 39-40 without the containment test.
safe_path_NoContainment(filename) ==
    LET hits == {i \in DOMAIN MEDIA_DIRS : RealPath(MEDIA_DIRS[i], filename) \in Files}
    IN  IF hits = {} THEN None
        ELSE Some(RealPath(MEDIA_DIRS[CHOOSE i \in hits : \A j \in hits : i <= j], filename))

\* stream.py:34-43: the file under the first media directory that holds it,
\* None when line 43 raises the 404.
safe_path(filename) ==
    LET hits == {i \in DOMAIN MEDIA_DIRS :
                    /\ Within(RealPath(MEDIA_DIRS[i], filename), MEDIA_DIRS[i])
                    /\ RealPath(MEDIA_DIRS[i], filename) \in Files}
    IN  IF hits = {} THEN None
        ELSE Some(RealPath(MEDIA_DIRS[CHOOSE i \in hits : \A j \in hits : i <= j], filename))

\* Requested file names: present, missing, and traversals to a file outside
\* the media directories, to a missing one, and to another media directory.
Filenames ==
    {[absolute |-> FALSE, parts |-> <<"movie.mkv">>],
     [absolute |-> FALSE, parts |-> <<"missing.mkv">>],
     [absolute |-> FALSE, parts |-> <<"..", "etc", "passwd">>],
     [absolute |-> FALSE, parts |-> <<"..", "etc", "missing">>],
     [absolute |-> TRUE, parts |-> <<"etc", "passwd">>],
     [absolute |-> FALSE, parts |-> <<"..", "default-videos", "demo.mp4">>]}

(* ------------------------------- answers ------------------------------- *)
\* The fields of an HTTP answer; the body fields a handler does not send
\* keep these values.
Answer(status, detail) ==
    [status |-> status, detail |-> detail, audio_tracks |-> <<>>,
     subtitle_tracks |-> <<>>, actual_start |-> 0]

\* stream.py:43.
NotFound == Answer(404, "File not found")

\* stream.py:58-62.
ProbeFailed == Answer(500, "ffprobe failed")

\* No ffmpeg child.
NoTranscoder ==
    [proc |-> "none", returncode |-> None, ss |-> 0, audio_map |-> 0,
     video |-> "", audio |-> "", scale |-> None]

(* ------------------------------- probing ------------------------------- *)
\* stream.py:28-32.
TEXT_SUBTITLE_CODECS ==
    {"subrip", "srt", "ass", "ssa", "webvtt", "mov_text", "sami", "microdvd",
     "subviewer", "text", "realtext", "stl", "jacosub", "ttml"}

\* stream.py:298.
BROWSER_SAFE_AUDIO == {"aac", "mp3", "opus", "flac", "vorbis"}

\* stream.py:21-25, RESOLUTION_MAP.get(resolution).
RESOLUTION_MAP(resolution) ==
    CASE resolution = "360" -> Some(360)
      [] resolution = "480" -> Some(480)
      [] resolution = "720" -> Some(720)
      [] OTHER -> None

\* stream.py:76-92: the audio streams numbered in stream order.
AudioTracks(audio) ==
    [i \in 1..Len(audio) |-> [index |-> i - 1, codec |-> audio[i]]]

RECURSIVE SubtitleTracks_Renumbered(_, _)
\* The variant of lines 93-105 that does not count the skipped streams;
\* i is the stream about to be read.
SubtitleTracks_Renumbered(subs, i) ==
    IF i > Len(subs) THEN <<>>
    ELSE IF subs[i] \notin TEXT_SUBTITLE_CODECS
         THEN SubtitleTracks_Renumbered(
                  SubSeq(subs, 1, i - 1) \o SubSeq(subs, i + 1, Len(subs)), i)
         ELSE <<[index |-> i - 1, codec |-> subs[i]]>>
              \o SubtitleTracks_Renumbered(subs, i + 1)

RECURSIVE SubtitleTracks(_, _)
\* stream.py:93-105 from the i-th subtitle stream on: subtitle_index counts
\* every subtitle stream, lines 95-97 skip the ones that are not text.
SubtitleTracks(subs, i) ==
    IF i > Len(subs) THEN <<>>
    ELSE IF subs[i] \notin TEXT_SUBTITLE_CODECS
         THEN SubtitleTracks(subs, i + 1)
         ELSE <<[index |-> i - 1, codec |-> subs[i]]>> \o SubtitleTracks(subs, i + 1)

\* The variant of line 304 that only takes the short cut below zero.
probe_keyframe_time_BelowZeroOnly(target, out) ==
    IF target < 0 THEN [actual |-> 0, spawns |-> <<>>]
    ELSE [actual |-> IF out = None THEN target ELSE out[1],
          spawns |-> <<"ffprobe-frame">>]

\* stream.py:301-324; out is the first number ffprobe prints, None when it
\* prints none.
probe_keyframe_time(target, out) ==
    IF target <= 0 THEN [actual |-> 0, spawns |-> <<>>]
    ELSE [actual |-> IF out = None THEN target ELSE out[1],
          spawns |-> <<"ffprobe-frame">>]

(* ------------------------------- inputs -------------------------------- *)
Resolutions == {"original", "360", "480", "720", "1080"}

\* The parameters a handler does not take keep their default.
Requests ==
    [handler : {"stream"}, filename : Filenames, resolution : Resolutions,
     audio_track : -1..MaxAudioTrack, start : -1..MaxStart, track : {0}]
    \cup [handler : {"info"}, filename : Filenames, resolution : {"original"},
          audio_track : {0}, start : {0}, track : {0}]
    \cup [handler : {"keyframe"}, filename : Filenames, resolution : {"original"},
          audio_track : {0}, start : -1..MaxStart, track : {0}]
    \cup [handler : {"subtitles"}, filename : Filenames, resolution : {"original"},
          audio_track : {0}, start : {0}, track : 0..MaxSubtitleStreams]

SubtitleCodecs == {"subrip", "hdmv_pgs_subtitle"}

Containers ==
    [audio : {<<"aac">>, <<"ac3">>, <<"aac", "ac3">>},
     subtitles : UNION {[1..n -> SubtitleCodecs] : n \in 0..MaxSubtitleStreams}]

\* The catalogue and the predictor play no part in a stream request.
NoFilms ==
    /\ films = <<>>
    /\ downloads = {}
    /\ listing = None
    /\ pre = <<>>
    /\ tick = <<>>
    /\ film = <<>>
    /\ fp_error = 1
    /\ verdict = NoVerdict
    /\ availability = ""
    /\ pc = "stream"

InitStream ==
    /\ request \in Requests
    /\ container \in Containers
    /\ stage = "Requested"
    /\ response = Answer(0, "")
    /\ spawned = <<>>
    /\ transcoder = NoTranscoder
    /\ chunks = 0
    /\ NoFilms

Others == <<film, fp_error, verdict, availability, pc, recVars>>

(* ------------------------------- handlers ------------------------------ *)
\* GET /stream/info/{filename} (stream.py:65-111); probe_ok is whether
\* ffprobe exits with 0.
GetFileInfo ==
    /\ stage = "Requested"
    /\ request.handler = "info"
    /\ \E probe_ok \in BOOLEAN :
         IF safe_path(request.filename) = None
         THEN response' = NotFound /\ spawned' = spawned
         ELSE /\ spawned' = Append(spawned, "ffprobe")
              /\ response' =
                   IF ~probe_ok THEN ProbeFailed
                   ELSE [Answer(200, "") EXCEPT
                            !.audio_tracks = AudioTracks(container.audio),
                            !.subtitle_tracks = SubtitleTracks(container.subtitles, 1)]
    /\ stage' = "Answered"
    /\ UNCHANGED <<request, container, transcoder, chunks, Others>>

\* GET /stream/subtitles/{filename} (stream.py:114-148); ok is whether
\* ffmpeg exits with 0.
GetSubtitles ==
    /\ stage = "Requested"
    /\ request.handler = "subtitles"
    /\ \E ok \in BOOLEAN :
         IF safe_path(request.filename) = None
         THEN response' = NotFound /\ spawned' = spawned
         ELSE /\ spawned' = Append(spawned, "ffmpeg-subtitles")
              /\ response' = IF ok THEN Answer(200, "")
                             ELSE Answer(404, "Could not extract subtitle track")
    /\ stage' = "Answered"
    /\ UNCHANGED <<request, container, transcoder, chunks, Others>>

\* GET /stream/keyframe-time/{filename} (stream.py:327-338); out is what
\* ffprobe prints.
GetKeyframeTime ==
    /\ stage = "Requested"
    /\ request.handler = "keyframe"
    /\ \E out \in {None} \cup {Some(t) : t \in 0..MaxStart} :
         IF safe_path(request.filename) = None
         THEN response' = NotFound /\ spawned' = spawned
         ELSE LET k == probe_keyframe_time(request.start, out)
              IN  /\ out # None => out[1] <= request.start
                  /\ spawned' = spawned \o k.spawns
                  /\ response' = [Answer(200, "") EXCEPT !.actual_start = k.actual]
    /\ stage' = "Answered"
    /\ UNCHANGED <<request, container, transcoder, chunks, Others>>

\* stream.py:370-371: audio_streams[audio_track]; a negative index counts
\* from the end of the list.
AudioCodecAt(audio, audio_track) ==
    IF audio_track >= 0 THEN audio[audio_track + 1]
    ELSE audio[Len(audio) + 1 + audio_track]

\* The variant of lines 368-374 that never asks for an audio transcode in
\* copy mode.
TranscoderArgs_AlwaysCopyAudio(req, audio) ==
    LET use_copy == req.resolution = "original"
    IN  [proc |-> "running", returncode |-> None,
         ss |-> req.start,
         audio_map |-> req.audio_track,
         video |-> IF use_copy THEN "copy" ELSE "libx264",
         audio |-> IF use_copy THEN "copy" ELSE "aac",
         scale |-> IF use_copy THEN None ELSE RESOLUTION_MAP(req.resolution)]

\* stream.py:359-409: the arguments of the ffmpeg command.
TranscoderArgs(req, audio) ==
    LET use_copy == req.resolution = "original"
        audio_needs_transcode ==
            /\ use_copy
            /\ req.audio_track < Len(audio)
            /\ AudioCodecAt(audio, req.audio_track) \notin BROWSER_SAFE_AUDIO
    IN  [proc |-> "running", returncode |-> None,
         ss |-> req.start,
         audio_map |-> req.audio_track,
         video |-> IF use_copy THEN "copy" ELSE "libx264",
         audio |-> IF use_copy /\ ~audio_needs_transcode THEN "copy" ELSE "aac",
         scale |-> IF use_copy THEN None ELSE RESOLUTION_MAP(req.resolution)]

\* GET /stream/{filename} up to the return of line 435 (stream.py:341-439):
\* the file is looked up, in copy mode ffprobe is run, ffmpeg is started and
\* the StreamingResponse is handed over; iter_ffmpeg has not run yet.
StreamVideo ==
    /\ stage = "Requested"
    /\ request.handler = "stream"
    /\ \E probe_ok \in BOOLEAN :
         IF safe_path(request.filename) = None
         THEN /\ response' = NotFound
              /\ stage' = "Answered"
              /\ UNCHANGED <<spawned, transcoder>>
         ELSE IF request.resolution = "original" /\ ~probe_ok
         THEN /\ response' = ProbeFailed
              /\ stage' = "Answered"
              /\ spawned' = Append(spawned, "ffprobe")
              /\ UNCHANGED transcoder
         ELSE IF /\ request.resolution = "original"
                 /\ request.audio_track < -Len(container.audio)
         THEN /\ response' = Answer(500, "Internal Server Error")
              /\ stage' = "Answered"
              /\ spawned' = Append(spawned, "ffprobe")
              /\ UNCHANGED transcoder
         ELSE /\ response' = Answer(200, "")
              /\ stage' = "Launched"
              /\ spawned' = (IF request.resolution = "original"
                             THEN Append(spawned, "ffprobe") ELSE spawned)
                            \o <<"ffmpeg">>
              /\ transcoder' = TranscoderArgs(request, container.audio)
    /\ UNCHANGED <<request, container, chunks, Others>>

(* ----------------------- the body of the response ---------------------- *)
\* stream.py:427-433: the finally of iter_ffmpeg kills the child if it has
\* not exited and waits for it.
KillAndWait(t) ==
    [t EXCEPT !.proc = "reaped",
              !.returncode = IF t.returncode = None THEN Some(-9) ELSE t.returncode]

\* The server starts to iterate iter_ffmpeg: line 421 awaits the first read.
StartBody ==
    /\ stage = "Launched"
    /\ stage' = "Streaming"
    /\ UNCHANGED <<request, container, response, spawned, transcoder, chunks, Others>>

\* stream.py:421-424: a chunk is read from the pipe and yielded.
ReadChunk ==
    /\ stage = "Streaming"
    /\ transcoder.proc \in {"running", "exited"}
    /\ chunks < MaxChunks
    /\ chunks' = chunks + 1
    /\ UNCHANGED <<request, container, stage, response, spawned, transcoder, Others>>

\* The child ends by itself, with success or with an error.
ProcessExit ==
    /\ transcoder.proc = "running"
    /\ \E code \in {0, 1} :
         transcoder' = [transcoder EXCEPT !.proc = "exited", !.returncode = Some(code)]
    /\ UNCHANGED <<request, container, stage, response, spawned, chunks, Others>>

\* The variant of lines 422-433 that starts ffmpeg again when the child
\* ended with an error.
EndOfOutput_Relaunch ==
    /\ stage = "Streaming"
    /\ transcoder.proc = "exited"
    /\ IF transcoder.returncode = Some(0)
       THEN /\ transcoder' = [transcoder EXCEPT !.proc = "reaped"]
            /\ stage' = "Completed"
            /\ spawned' = spawned
       ELSE /\ transcoder' = [transcoder EXCEPT !.proc = "running", !.returncode = None]
            /\ stage' = "Launched"
            /\ spawned' = Append(spawned, "ffmpeg")
    /\ UNCHANGED <<request, container, response, chunks, Others>>

\* stream.py:422-423 and 427-433: the read returns no bytes once the child
\* has closed its output; the loop ends and the finally runs.
EndOfOutput ==
    /\ stage = "Streaming"
    /\ transcoder.proc = "exited"
    /\ transcoder' = KillAndWait(transcoder)
    /\ stage' = "Completed"
    /\ UNCHANGED <<request, container, response, spawned, chunks, Others>>

\* The client goes away.  While iter_ffmpeg is suspended in its try block
\* the server cancels or closes it and the finally runs.  Before the first
\* iteration the generator object has run no code: the server either starts
\* it and cancels it at once (entered) or drops it unstarted, and an
\* unstarted generator has no finally to run.
ClientDisconnect ==
    /\ stage \in {"Launched", "Streaming"}
    /\ \E entered \in BOOLEAN :
         transcoder' = IF stage = "Streaming" \/ entered
                       THEN KillAndWait(transcoder) ELSE transcoder
    /\ stage' = "Aborted"
    /\ UNCHANGED <<request, container, response, spawned, chunks, Others>>

\* Sending a yielded chunk fails: the server closes iter_ffmpeg at its yield
\* (GeneratorExit, lines 425-433).
WriteFailure ==
    /\ stage = "Streaming"
    /\ chunks > 0
    /\ transcoder' = KillAndWait(transcoder)
    /\ stage' = "Aborted"
    /\ UNCHANGED <<request, container, response, spawned, chunks, Others>>

NextStream ==
    \/ GetFileInfo
    \/ GetSubtitles
    \/ GetKeyframeTime
    \/ StreamVideo
    \/ StartBody
    \/ ReadChunk
    \/ ProcessExit
    \/ EndOfOutput
    \/ ClientDisconnect
    \/ WriteFailure

SpecStream == InitStream /\ [][NextStream]_vars

(* ====================== claims on the stream pipeline ================== *)
\* The request is over: the body ended or the client is gone.
StreamOver == stage \in {"Completed", "Aborted"}

\* C15: every ffmpeg child started for a stream request is killed if still
\* running and reaped on every way out: once the request is over, by the end
\* of the output, a disconnect at any point after the start of the child or
\* a failed write, the child is reaped.
C15_TranscoderIsReapedWhenRequestIsOver ==
    StreamOver => transcoder.proc = "reaped"

\* The file name resolves outside every media directory.
OutsideAllRoots(filename) ==
    \A i \in DOMAIN MEDIA_DIRS :
        ~Within(RealPath(MEDIA_DIRS[i], filename), MEDIA_DIRS[i])

\* The file name resolves to no file at all.
NonExistent(filename) ==
    \A i \in DOMAIN MEDIA_DIRS : RealPath(MEDIA_DIRS[i], filename) \notin Files

\* C16: for each of the four handlers, a file name that resolves outside the
\* media directories gets the very answer of a file name that does not
\* exist, 404 "File not found", and the request ends with no process
\* started.
C16_OutsideRootsLooksLikeMissing ==
    (/\ stage # "Requested"
     /\ OutsideAllRoots(request.filename) \/ NonExistent(request.filename)) =>
        /\ stage = "Answered"
        /\ response = NotFound
        /\ spawned = <<>>
        /\ transcoder.proc = "none"

\* A stream request for an existing file outside the media directories has
\* been answered.
C16_Witness ==
    /\ stage = "Answered"
    /\ request.handler = "stream"
    /\ OutsideAllRoots(request.filename)
    /\ ~NonExistent(request.filename)
    /\ response = NotFound

\* The parameters the claim calls invalid.
InvalidParameters ==
    \/ request.start < 0
    \/ request.audio_track < 0
    \/ request.audio_track >= Len(container.audio)
    \/ request.resolution \notin {"360", "480", "720", "original"}

\* C17: a stream request with a negative seek offset, an audio track index
\* out of range or a resolution outside 360, 480, 720, original is rejected
\* and starts no ffmpeg child.
C17_InvalidParametersNeverLaunch ==
    (request.handler = "stream" /\ InvalidParameters) =>
        /\ transcoder.proc = "none"
        /\ stage \in {"Requested", "Answered"}
        /\ stage = "Answered" => response.status \in {400, 404, 422}

\* C18: for a stream request with a positive seek offset the keyframe probe
\* is run before ffmpeg is started (and ffmpeg is seeded with its result).
C18_KeyframeProbeRunsBeforeLaunch ==
    (transcoder.proc # "none" /\ request.start > 0) =>
        \E i, j \in DOMAIN spawned :
            i < j /\ spawned[i] = "ffprobe-frame" /\ spawned[j] = "ffmpeg"

\* C19: the keyframe probe of an offset <= 0 answers 0 and starts no
\* process, whatever the file.
C19_NoProbeAtOrBelowZero ==
    (stage = "Answered" /\ request.handler = "keyframe" /\ request.start <= 0) =>
        /\ spawned = <<>>
        /\ safe_path(request.filename) # None =>
              response.status = 200 /\ response.actual_start = 0

\* The keyframe time of offset 0 of an existing file has been answered.
C19_Witness ==
    /\ stage = "Answered"
    /\ request.handler = "keyframe"
    /\ request.start = 0
    /\ safe_path(request.filename) # None
    /\ response.actual_start = 0

\* The info request has been answered with the track lists.
InfoAnswered ==
    stage = "Answered" /\ request.handler = "info" /\ response.status = 200

\* The positions, from 0, of the text streams among the subtitle streams.
TextPositions ==
    {k - 1 : k \in {n \in DOMAIN container.subtitles :
                       container.subtitles[n] \in TEXT_SUBTITLE_CODECS}}

\* C20 as stated: the exposed subtitle list leaves out the image-based
\* streams and numbers the text tracks 0, 1, 2, ... without gaps.
C20_ExposedIndexesAreConsecutive ==
    InfoAnswered =>
        /\ Len(response.subtitle_tracks) = Cardinality(TextPositions)
        /\ \A i \in DOMAIN response.subtitle_tracks :
              response.subtitle_tracks[i].index = i - 1

\* C20 amended: the exposed subtitle list leaves out the image-based streams
\* and gives each text track, in stream order, its position among all the
\* subtitle streams of the container.
C20_ExposedIndexIsContainerIndex ==
    InfoAnswered =>
        /\ Len(response.subtitle_tracks) = Cardinality(TextPositions)
        /\ {response.subtitle_tracks[i].index : i \in DOMAIN response.subtitle_tracks}
              = TextPositions
        /\ \A i, j \in DOMAIN response.subtitle_tracks :
              i < j => response.subtitle_tracks[i].index < response.subtitle_tracks[j].index

\* One image-based stream followed by one text stream: one track, index 1.
C20_Witness ==
    /\ InfoAnswered
    /\ container.subtitles = <<"hdmv_pgs_subtitle", "subrip">>
    /\ response.subtitle_tracks = <<[index |-> 1, codec |-> "subrip"]>>

\* The processes started for the request, by kind.
Started(kind) == {i \in DOMAIN spawned : spawned[i] = kind}

\* A stream request for a file that exists under a media directory, past
\* the path check.
StreamAccepted ==
    /\ request.handler = "stream"
    /\ stage # "Requested"
    /\ safe_path(request.filename) # None

\* The request names one of the audio streams of the container.
AudioTrackExists ==
    request.audio_track >= 0 /\ request.audio_track < Len(container.audio)

\* C21: for a stream request that passed the path check, the probe runs if
\* and only if copy mode (resolution=original) was asked; in copy mode
\* ffmpeg is started with the video copied and the audio transcoded exactly
\* when the codec of the selected audio track is not browser-decodable; in
\* re-encode mode no probe runs and the audio is always transcoded.
C21_ProbeAndCodecsFollowTheMode ==
    StreamAccepted =>
        /\ Started("ffprobe") # {} <=> request.resolution = "original"
        /\ (transcoder.proc # "none" /\ request.resolution = "original") =>
              /\ transcoder.video = "copy"
              /\ AudioTrackExists =>
                    (transcoder.audio = "aac"
                        <=> container.audio[request.audio_track + 1]
                                \notin {"aac", "mp3", "opus", "flac", "vorbis"})
              /\ transcoder.audio \in {"aac", "copy"}
        /\ (transcoder.proc # "none" /\ request.resolution # "original") =>
              /\ transcoder.video = "libx264"
              /\ transcoder.audio = "aac"

\* Copy mode on the second audio track, ac3: probed, then started with the
\* video copied and the audio transcoded.
C21_Witness ==
    /\ StreamAccepted
    /\ request.resolution = "original"
    /\ request.audio_track = 1
    /\ container.audio = <<"aac", "ac3">>
    /\ spawned = <<"ffprobe", "ffmpeg">>
    /\ transcoder.video = "copy"
    /\ transcoder.audio = "aac"

\* C22: a stream is Completed only when ffmpeg has exited with code 0; an
\* exit with another code is not reported as a normal completion.
C22_CompletedOnlyOnExitZero ==
    stage = "Completed" => transcoder.returncode = Some(0)

\* C23: a stream request starts ffmpeg at most once: once the request has
\* left Requested no process is started and a request that has left
\* Launched never gets back to it, whatever failure or abort happened.
C23_TranscoderStartedAtMostOnce ==
    [][/\ Cardinality(Started("ffmpeg")) <= 1
       /\ stage # "Requested" =>
             /\ spawned' = spawned
             /\ stage' = "Launched" => stage = "Launched"]_vars

\* The child failed, its output ended, and the request is over with the one
\* ffmpeg it started.
C23_Witness ==
    /\ stage = "Completed"
    /\ transcoder.returncode = Some(1)
    /\ Cardinality(Started("ffmpeg")) = 1

(* ================= further claims on the readiness predictor =========== *)
\* C25: the result of the predictor has the documented shape: can_watch
\* true comes with ready_in 0, can_watch false with ready_in null or a
\* positive integer.
C25_ResultHasDocumentedShape ==
    (Answered /\ ~verdict.raised) =>
        /\ verdict.can_watch => verdict.ready_in = Some(0)
        /\ ~verdict.can_watch =>
              verdict.ready_in = None \/ verdict.ready_in[1] >= 1

(* ==================== further claims on the reconciler ================= *)
\* The row f shows the bytes, the progress, the speed and the eta of the
\* torrent t, as lines 199-206 compute them.
ShowsTransfer(f, t) ==
    /\ f.downloaded_bytes = t.downloaded
    /\ f.total_bytes = t.size
    /\ f.download_speed = t.dlspeed
    /\ f.eta = t.eta
    /\ IF t.size > 0
       THEN RatEq(f.progress, RatMul(Rat(t.downloaded, t.size), RatInt(100)))
       ELSE t.progress # None => RatEq(f.progress, RatMul(t.progress[1], RatInt(100)))

\* C24: after a tick, the progress, the byte counts, the speed and the eta
\* of a film the tick has written, which has a transfer in the listing, all
\* come from one transfer, one of the highest rank among the film's listed
\* transfers; fields of different origins are never mixed.
C24_FieldsComeFromOneBestTransfer ==
    (pc = "ticked" /\ tick.asked /\ listing # None) =>
        \A id \in RefreshedWithTransfer :
            (id \in DOMAIN films /\ films[id] # pre[id]) =>
                \E h \in BestHashes(pre, downloads, listing[1], id) :
                    ShowsTransfer(films[id], listing[1][h])

\* A tick that could not reach the engine or log in to it.
EngineUnreachable == pc = "ticked" /\ tick.asked /\ listing = None

\* C29: when the engine cannot be reached or refuses the login during a
\* tick, the tick changes nothing: no film is modified, deleted or marked
\* error, and no Download row changes.
C29_UnreachableEngineChangesNothing ==
    [][(EngineUnreachable' /\ pc # "ticked") =>
          /\ films' = films
          /\ downloads' = downloads
          /\ tick'.raised]_vars

\* The engine was unreachable in a tick over a film with a Download row and
\* a film without one, which an empty listing would mark error and delete.
C29_Witness ==
    /\ EngineUnreachable
    /\ films = pre
    /\ \E id \in WithHashes(pre, downloads) : HasDownload(downloads, id)
    /\ \E id \in WithHashes(pre, downloads) : ~HasDownload(downloads, id)

\* The films stored completed before the request.
CompletedBefore == {id \in DOMAIN pre : pre[id].status = "completed"}

\* C30: completed is absorbing for the film reconciler: a tick leaves every
\* film stored completed in the table with all its fields as they were,
\* also when none of its transfers is in the engine's listing any more.
C30_CompletedIsAbsorbing ==
    [][pc' = "ticked" =>
          \A id \in DOMAIN films :
              films[id].status = "completed" =>
                  id \in DOMAIN films' /\ films'[id] = films[id]]_vars

\* A tick that changed another film went over a completed film whose
\* transfers are all gone from the listing, and left it as it was.
C30_Witness ==
    /\ FullTick
    /\ films # pre
    /\ \E id \in CompletedBefore :
          /\ HashesOf(pre, downloads, id) # {}
          /\ HashesOf(pre, downloads, id) \cap DOMAIN listing[1] = {}
          /\ HasDownload(downloads, id)
          /\ id \in DOMAIN films
          /\ films[id] = pre[id]

\* A Download row whose stored status is completed or error.
Final(d) == d.status \in {"completed", "error"}

\* C26: terminal download statuses are final: a progress request changes no
\* Download row stored completed or error, and a request about such a row
\* does not ask the engine and changes neither table, whatever requests
\* came before it.
C26_TerminalDownloadsAreFinal ==
    [][pc' = "polled" =>
          /\ \A d \in downloads : Final(d) => d \in downloads'
          /\ Final(tick'.row[1]) =>
                /\ ~tick'.asked
                /\ listing' = None
                /\ downloads' = downloads
                /\ films' = films]_vars

\* The row of h3 was stored error by a request that found no entry for the
\* hash (its byte counts are still 0), and a later request about it did not
\* ask the engine.
C26_Witness ==
    /\ pc = "polled"
    /\ tick.row # None
    /\ tick.row[1].torrent_hash = "h3"
    /\ tick.row[1].status = "error"
    /\ tick.row[1].total_bytes = 0
    /\ tick.row[1] \in downloads
    /\ ~tick.asked
    /\ listing = None

\* routes/films.py:191-194: the tables of the per-torrent listing.
Torrents_COMPLETED_STATES ==
    {"uploading", "forcedUP", "stalledUP", "queuedUP", "checkingUP",
     "pausedUP", "stoppedUP"}

Torrents_PAUSED_STATES == {"pausedDL", "stoppedDL"}

Torrents_ERROR_STATES == {"error", "missingFiles", "unknown"}

\* routes/films.py:255-263: the status get_film_torrents gives a torrent.
MapTorrentState(state) ==
    IF state \in Torrents_COMPLETED_STATES THEN "completed"
    ELSE IF state \in Torrents_PAUSED_STATES THEN "paused"
    ELSE IF state \in Torrents_ERROR_STATES THEN "error"
    ELSE "downloading"

\* The stored statuses with which the progress route calls update_progress.
Polled == {"downloading", "paused"}

\* C28: the classification of the engine's states is one table: every state
\* the engine reports in a listing gets the same status from the download
\* reconciler, the film reconciler and the per-torrent listing.
C28_OneClassificationTable ==
    listing # None =>
        \A h \in DOMAIN listing[1] :
            LET state == listing[1][h].state
            IN  /\ MapTorrentState(state) = MapFilmState(state)
                /\ \A stored \in Polled :
                      MapDownloadState(state, stored) = MapFilmState(state)

\* The films that, when the tick of this step starts, have no Download row
\* and none of whose stored hashes is in the engine's listing.
Orphans ==
    {id \in DOMAIN films :
        /\ ~HasDownload(downloads, id)
        /\ HashesOf(films, downloads, id) \cap DOMAIN listing'[1] = {}}

\* C27: no orphaned film persists: a film of any status that the hourly
\* cleanup left without a Download row, and that has no transfer in the
\* engine, is deleted by the next tick.
C27_OrphansAreReclaimed ==
    [][(pc = "cleaned" /\ pc' = "ticked" /\ FullTick') =>
          \A id \in Orphans : id \notin DOMAIN films']_vars

====
